---- MODULE Spec2Model ----
(***************************************************************************)
(* The generic state-space search (Chapter2/generic_search.h: dfs, bfs,    *)
(* astar, node_to_path), two of its callers (maze.cpp, missionaries.cc)    *)
(* and the constraint-satisfaction framework (csp.h: CSP, Constraint,      *)
(* backtracking_search) with its map-coloring and SEND+MORE=MONEY callers. *)
(***************************************************************************)
EXTENDS Integers, Sequences, FiniteSets, TLC

VARIABLES
    problem,        \* the instance main() works on (maze / graph / missionaries)
    pc,             \* position of main(): which search call is running
    nodes,          \* the Node<T> objects allocated by the running search call
    frontier,       \* the running call's frontier: indices into nodes
    explored,       \* std::set<T> explored of dfs / bfs
    explored_cost,  \* std::map<T, double> explored of astar
    solution1,      \* result of dfs   (maze.cpp: solution1 / path1)
    solution2,      \* result of bfs   (maze.cpp: solution2 / path2; missionaries.cc: solution)
    solution3,      \* result of astar (maze.cpp: solution3 / path3)
    csp,            \* the CSP object: _variables, _domains, _constraints
    stack,          \* activation records of backtracking_search, innermost last
    ret,            \* value returned by the activation that finished last
    solution,       \* what main() receives from csp.backtracking_search()
    begin,          \* iterator begin of binary_contains, as an index
    end,            \* iterator end of binary_contains: the index past the last
    contained       \* what the caller receives from binary_contains

searchVars == <<problem, pc, nodes, frontier, explored, explored_cost,
                solution1, solution2, solution3>>
searchVarsButPc == <<problem, nodes, frontier, explored, explored_cost,
                     solution1, solution2, solution3>>
cspVars == <<csp, stack, ret, solution>>
containsVars == <<begin, end, contained>>
vars == <<searchVars, cspVars, containsVars>>

-----------------------------------------------------------------------------
(* Bounds of the model *)

\* rows of the modelled mazes (Maze's constructor takes any number)
MazeRows == 3
\* columns of the modelled mazes
MazeColumns == 2
\* states of the modelled directed graphs
NumStates == 3
\* edges of the modelled directed graphs
MaxEdges == 3
\* regions of the modelled colouring problems
NumRegions == 3
\* nodes of the modelled parent forests handed to node_to_path
MaxNodes == 4
\* add_constraint calls of the modelled programs that add any constraint
MaxAdds == 2
\* columns of the modelled boards of queens
MaxQueens == 3
\* letters of the modelled sums, and the digits they choose from
MaxLetters == 3
\* words of the modelled word searches
MaxWords == 2
\* length of the modelled sorted sequences
MaxLen == 3
\* the elements of the modelled sorted sequences are 1 .. MaxValue
MaxValue == 3

-----------------------------------------------------------------------------
(* Small helpers *)

RECURSIVE Reverse(_)
Reverse(s) == IF s = <<>> THEN <<>> ELSE Append(Reverse(Tail(s)), Head(s))

Last(s) == s[Len(s)]

Front(s) == SubSeq(s, 1, Len(s) - 1)

Abs(i) == IF i < 0 THEN -i ELSE i

SeqToSet(s) == { s[i] : i \in 1 .. Len(s) }

\* (variant) the element read and left where it is
RemoveNone(s, i) == s

\* the i-th element removed from a sequence
RemoveAt(s, i) == SubSeq(s, 1, i - 1) \o SubSeq(s, i + 1, Len(s))

\* the elements of a set of integers as an ascending sequence
RECURSIVE Ascending(_)
Ascending(S) ==
    IF S = {} THEN <<>>
    ELSE LET m == CHOOSE x \in S : \A y \in S : x <= y
         IN <<m>> \o Ascending(S \ {m})

-----------------------------------------------------------------------------
(* Node<T> and node_to_path *)

\* (variant) cost and heuristic left at their default arguments
NodeDefaults(state, parent, cost, heuristic) ==
    [state |-> state, parent |-> parent, cost |-> 0, heuristic |-> 0]

\* Node(state, parent, cost, heuristic); parent 0 stands for nullptr
Node(state, parent, cost, heuristic) ==
    [state |-> state, parent |-> parent, cost |-> cost, heuristic |-> heuristic]

\* (variant) the while loop left when the node has no parent
RECURSIVE ParentChainBelowRoot(_, _)
ParentChainBelowRoot(ns, node) ==
    IF node = 0 \/ ns[node].parent = 0 THEN <<>>
    ELSE <<ns[node].state>> \o ParentChainBelowRoot(ns, ns[node].parent)

\* the while loop of node_to_path: states from the node up to the root
RECURSIVE ParentChain(_, _)
ParentChain(ns, node) ==
    IF node = 0 THEN <<>>
    ELSE <<ns[node].state>> \o ParentChain(ns, ns[node].parent)

\* (variant) the std::reverse left out
node_to_path_unreversed(ns, node) == ParentChain(ns, node)

node_to_path(ns, node) == Reverse(ParentChain(ns, node))

\* what main() keeps of a search: the returned pointer (found = it is not
\* nullptr), the returned node's fields and node_to_path of it
NotFound == [found |-> FALSE, path |-> <<>>, cost |-> 0]

Found(ns, node) ==
    [found |-> TRUE, path |-> node_to_path(ns, node), cost |-> ns[node].cost,
     state |-> ns[node].state]

-----------------------------------------------------------------------------
(* maze.cpp: Maze *)

Cells(rows, columns) == (0 .. rows - 1) \X (0 .. columns - 1)

\* Maze::Maze: every cell EMPTY, some BLOCKED (_randomly_fill), then START and
\* GOAL written over whatever the two cells held
MazeGrid(rows, columns, blocked, start, goal) ==
    [c \in Cells(rows, columns) |->
        IF c = goal THEN "GOAL"
        ELSE IF c = start THEN "START"
        ELSE IF c \in blocked THEN "BLOCKED"
        ELSE "EMPTY"]

MazeGoalTest(p, ml) == ml[1] = p.goal[1] /\ ml[2] = p.goal[2]

MazeSuccessors(p, ml) ==
    LET row == ml[1]
        column == ml[2]
        down == IF row + 1 < p.rows /\ p.grid[<<row + 1, column>>] # "BLOCKED"
                THEN << <<row + 1, column>> >> ELSE <<>>
        up == IF row - 1 >= 0 /\ p.grid[<<row - 1, column>>] # "BLOCKED"
              THEN << <<row - 1, column>> >> ELSE <<>>
        right == IF column + 1 < p.columns /\ p.grid[<<row, column + 1>>] # "BLOCKED"
                 THEN << <<row, column + 1>> >> ELSE <<>>
        left == IF column - 1 >= 0 /\ p.grid[<<row, column - 1>>] # "BLOCKED"
                THEN << <<row, column - 1>> >> ELSE <<>>
    IN down \o up \o right \o left

manhattan_distance(goal, ml) ==
    LET xdist == Abs(ml[2] - goal[2])
        ydist == Abs(ml[1] - goal[1])
    IN xdist + ydist

MazeProblems(rows, columns) ==
    { [kind |-> "maze", rows |-> rows, columns |-> columns,
       grid |-> MazeGrid(rows, columns, blocked, <<0, 0>>, goal),
       start |-> <<0, 0>>, goal |-> goal] :
         goal \in Cells(rows, columns), blocked \in SUBSET Cells(rows, columns) }

-----------------------------------------------------------------------------
(* missionaries.cc: MCState *)

MAX_NUM == 3

MCState(missionaries, cannibals, boat) ==
    [wm |-> missionaries, wc |-> cannibals,
     em |-> MAX_NUM - missionaries, ec |-> MAX_NUM - cannibals, boat |-> boat]

\* (variant) the east bank left unchecked
is_legal_west_only(s) == ~(s.wm < s.wc /\ s.wm > 0)

is_legal(s) ==
    IF s.wm < s.wc /\ s.wm > 0 THEN FALSE
    ELSE IF s.em < s.ec /\ s.em > 0 THEN FALSE
    ELSE TRUE

MCGoalTest(s) == is_legal(s) /\ s.em = MAX_NUM /\ s.ec = MAX_NUM

MCCandidates(s) ==
    IF s.boat
    THEN (IF s.wm > 1 THEN <<MCState(s.wm - 2, s.wc, ~s.boat)>> ELSE <<>>)
      \o (IF s.wm > 0 THEN <<MCState(s.wm - 1, s.wc, ~s.boat)>> ELSE <<>>)
      \o (IF s.wc > 1 THEN <<MCState(s.wm, s.wc - 2, ~s.boat)>> ELSE <<>>)
      \o (IF s.wc > 0 THEN <<MCState(s.wm, s.wc - 1, ~s.boat)>> ELSE <<>>)
      \o (IF s.wc > 0 /\ s.wm > 0
          THEN <<MCState(s.wm - 1, s.wc - 1, ~s.boat)>> ELSE <<>>)
    ELSE (IF s.em > 1 THEN <<MCState(s.wm + 2, s.wc, ~s.boat)>> ELSE <<>>)
      \o (IF s.em > 0 THEN <<MCState(s.wm + 1, s.wc, ~s.boat)>> ELSE <<>>)
      \o (IF s.ec > 1 THEN <<MCState(s.wm, s.wc + 2, ~s.boat)>> ELSE <<>>)
      \o (IF s.ec > 0 THEN <<MCState(s.wm, s.wc + 1, ~s.boat)>> ELSE <<>>)
      \o (IF s.ec > 0 /\ s.em > 0
          THEN <<MCState(s.wm + 1, s.wc + 1, ~s.boat)>> ELSE <<>>)

\* (variant) sucs returned in place of legal_sucs
MCSuccessorsUnfiltered(s) == MCCandidates(s)

MCSuccessors(s) == SelectSeq(MCCandidates(s), is_legal)

MCProblem == [kind |-> "mc", start |-> MCState(MAX_NUM, MAX_NUM, TRUE)]

-----------------------------------------------------------------------------
(* directed graphs: the state spaces a caller of generic_search.h may pass, *)
(* given as successor lists                                                 *)

GraphStates == 1 .. NumStates

GraphEdgeSets(m) ==
    { E \in SUBSET (GraphStates \X GraphStates) : Cardinality(E) <= m }

GraphSucc(E) == [s \in GraphStates |-> Ascending({ t \in GraphStates : <<s, t>> \in E })]

HeuristicKinds == {"zero", "unit", "far"}

GraphHeuristic(p, s) ==
    IF s = p.goal THEN 0
    ELSE CASE p.hkind = "zero" -> 0
           [] p.hkind = "unit" -> 1
           [] p.hkind = "far" -> NumStates

GraphProblems(m) ==
    { [kind |-> "graph", succ |-> GraphSucc(E), start |-> 1, goal |-> g, hkind |-> h] :
         E \in GraphEdgeSets(m), g \in {1, NumStates}, h \in HeuristicKinds }

-----------------------------------------------------------------------------
(* the callbacks handed to dfs / bfs / astar *)

goal_test(p, s) ==
    CASE p.kind = "maze" -> MazeGoalTest(p, s)
      [] p.kind = "mc" -> MCGoalTest(s)
      [] p.kind = "graph" -> s = p.goal

successors(p, s) ==
    CASE p.kind = "maze" -> MazeSuccessors(p, s)
      [] p.kind = "mc" -> MCSuccessors(s)
      [] p.kind = "graph" -> p.succ[s]

heuristic(p, s) ==
    CASE p.kind = "maze" -> manhattan_distance(p.goal, s)
      [] p.kind = "mc" -> 0
      [] p.kind = "graph" -> GraphHeuristic(p, s)

-----------------------------------------------------------------------------
(* generic_search.h: dfs, bfs, astar *)

\* (variant) the for loop left after its first iteration
PushFirstChildOnly(children, current_node, ns, fr, ex) ==
    IF children = <<>> \/ Head(children) \in ex
    THEN [nodes |-> ns, frontier |-> fr, explored |-> ex]
    ELSE [nodes |-> Append(ns, Node(Head(children), current_node, 0, 0)),
          frontier |-> Append(fr, Len(ns) + 1),
          explored |-> ex \cup {Head(children)}]

\* the for loop of dfs and of bfs over successors(current_state): a child
\* already in explored is skipped, any other is inserted and gets a node
RECURSIVE PushChildren(_, _, _, _, _)
PushChildren(children, current_node, ns, fr, ex) ==
    IF children = <<>>
    THEN [nodes |-> ns, frontier |-> fr, explored |-> ex]
    ELSE LET child == Head(children)
         IN IF child \in ex
            THEN PushChildren(Tail(children), current_node, ns, fr, ex)
            ELSE PushChildren(Tail(children), current_node,
                              Append(ns, Node(child, current_node, 0, 0)),
                              Append(fr, Len(ns) + 1),
                              ex \cup {child})

\* (variant) a recorded cost equal to new_cost replaced as well
RECURSIVE PushChildrenAstarOrEqual(_, _, _, _, _, _)
PushChildrenAstarOrEqual(p, children, current_node, ns, fr, ex) ==
    IF children = <<>>
    THEN [nodes |-> ns, frontier |-> fr, explored |-> ex]
    ELSE LET child == Head(children)
             new_cost == ns[current_node].cost + 1
         IN IF child \notin DOMAIN ex \/ ex[child] >= new_cost
            THEN PushChildrenAstarOrEqual(p, Tail(children), current_node,
                     Append(ns, Node(child, current_node, new_cost, heuristic(p, child))),
                     Append(fr, Len(ns) + 1),
                     (child :> new_cost) @@ ex)
            ELSE PushChildrenAstarOrEqual(p, Tail(children), current_node, ns, fr, ex)

\* the for loop of astar: a child with no recorded cost, or with a recorded
\* cost above new_cost, is recorded and gets a node
RECURSIVE PushChildrenAstar(_, _, _, _, _, _)
PushChildrenAstar(p, children, current_node, ns, fr, ex) ==
    IF children = <<>>
    THEN [nodes |-> ns, frontier |-> fr, explored |-> ex]
    ELSE LET child == Head(children)
             new_cost == ns[current_node].cost + 1
         IN IF child \notin DOMAIN ex \/ ex[child] > new_cost
            THEN PushChildrenAstar(p, Tail(children), current_node,
                     Append(ns, Node(child, current_node, new_cost, heuristic(p, child))),
                     Append(fr, Len(ns) + 1),
                     (child :> new_cost) @@ ex)
            ELSE PushChildrenAstar(p, Tail(children), current_node, ns, fr, ex)

\* (variant) the stack read at its bottom
StackBottom(fr) == 1

\* std::stack::top: the element pushed last
StackTop(fr) == Len(fr)

\* (variant) the queue read at its back
QueueBack(fr) == Len(fr)

\* std::queue::front: the element pushed first
QueueFront(fr) == 1

\* std::priority_queue<Node<T> *>::top. The queue holds pointers and has the
\* default comparison, std::less<Node<T> *>: it orders the nodes by their
\* addresses, and Node::operator< is never called. top() is the node at the
\* highest address. Where operator new places each node is up to the
\* allocator, and a node is never pushed twice, so every element of the
\* frontier can be the one at the highest address.
PriorityTop(fr) == 1 .. Len(fr)

\* main() of maze.cpp calls dfs, then bfs, then astar on the same maze;
\* main() of missionaries.cc calls bfs alone
AfterSearch(p, call) ==
    IF p.kind = "mc" THEN "done"
    ELSE CASE call = "dfs" -> "call_bfs"
           [] call = "bfs" -> "call_astar"
           [] call = "astar" -> "done"

DfsCall ==
    /\ pc = "call_dfs"
    /\ nodes' = <<Node(problem.start, 0, 0, 0)>>
    /\ frontier' = <<1>>
    /\ explored' = {}
    /\ pc' = "dfs"
    /\ UNCHANGED <<problem, explored_cost, solution1, solution2, solution3, cspVars,
                   containsVars>>

DfsStep ==
    /\ pc = "dfs"
    /\ frontier # <<>>
    /\ LET i == StackTop(frontier)
           current_node == frontier[i]
           current_state == nodes[current_node].state
           rest == RemoveAt(frontier, i)
       IN IF goal_test(problem, current_state)
          THEN /\ solution1' = Found(nodes, current_node)
               /\ pc' = AfterSearch(problem, "dfs")
               /\ frontier' = rest
               /\ UNCHANGED <<nodes, explored>>
          ELSE LET r == PushChildren(successors(problem, current_state),
                                     current_node, nodes, rest, explored)
               IN /\ nodes' = r.nodes
                  /\ frontier' = r.frontier
                  /\ explored' = r.explored
                  /\ UNCHANGED <<pc, solution1>>
    /\ UNCHANGED <<problem, explored_cost, solution2, solution3, cspVars,
                   containsVars>>

DfsExhausted ==
    /\ pc = "dfs"
    /\ frontier = <<>>
    /\ solution1' = NotFound
    /\ pc' = AfterSearch(problem, "dfs")
    /\ UNCHANGED <<problem, nodes, frontier, explored, explored_cost,
                   solution2, solution3, cspVars, containsVars>>

BfsCall ==
    /\ pc = "call_bfs"
    /\ nodes' = <<Node(problem.start, 0, 0, 0)>>
    /\ frontier' = <<1>>
    /\ explored' = {}
    /\ pc' = "bfs"
    /\ UNCHANGED <<problem, explored_cost, solution1, solution2, solution3, cspVars,
                   containsVars>>

BfsStep ==
    /\ pc = "bfs"
    /\ frontier # <<>>
    /\ LET i == QueueFront(frontier)
           current_node == frontier[i]
           current_state == nodes[current_node].state
           rest == RemoveAt(frontier, i)
       IN IF goal_test(problem, current_state)
          THEN /\ solution2' = Found(nodes, current_node)
               /\ pc' = AfterSearch(problem, "bfs")
               /\ frontier' = rest
               /\ UNCHANGED <<nodes, explored>>
          ELSE LET r == PushChildren(successors(problem, current_state),
                                     current_node, nodes, rest, explored)
               IN /\ nodes' = r.nodes
                  /\ frontier' = r.frontier
                  /\ explored' = r.explored
                  /\ UNCHANGED <<pc, solution2>>
    /\ UNCHANGED <<problem, explored_cost, solution1, solution3, cspVars,
                   containsVars>>

BfsExhausted ==
    /\ pc = "bfs"
    /\ frontier = <<>>
    /\ solution2' = NotFound
    /\ pc' = AfterSearch(problem, "bfs")
    /\ UNCHANGED <<problem, nodes, frontier, explored, explored_cost,
                   solution1, solution3, cspVars, containsVars>>

AstarCall ==
    /\ pc = "call_astar"
    /\ nodes' = <<Node(problem.start, 0, 0, heuristic(problem, problem.start))>>
    /\ frontier' = <<1>>
    /\ explored_cost' = <<>>
    /\ explored' = {}
    /\ pc' = "astar"
    /\ UNCHANGED <<problem, solution1, solution2, solution3, cspVars,
                   containsVars>>

AstarStep ==
    /\ pc = "astar"
    /\ frontier # <<>>
    /\ \E i \in PriorityTop(frontier) :
         LET current_node == frontier[i]
             current_state == nodes[current_node].state
             rest == RemoveAt(frontier, i)
         IN IF goal_test(problem, current_state)
            THEN /\ solution3' = Found(nodes, current_node)
                 /\ pc' = AfterSearch(problem, "astar")
                 /\ frontier' = rest
                 /\ UNCHANGED <<nodes, explored_cost>>
            ELSE LET r == PushChildrenAstar(problem,
                              successors(problem, current_state),
                              current_node, nodes, rest, explored_cost)
                 IN /\ nodes' = r.nodes
                    /\ frontier' = r.frontier
                    /\ explored_cost' = r.explored
                    /\ UNCHANGED <<pc, solution3>>
    /\ UNCHANGED <<problem, explored, solution1, solution2, cspVars,
                   containsVars>>

AstarExhausted ==
    /\ pc = "astar"
    /\ frontier = <<>>
    /\ solution3' = NotFound
    /\ pc' = AfterSearch(problem, "astar")
    /\ UNCHANGED <<problem, nodes, frontier, explored, explored_cost,
                   solution1, solution2, cspVars, containsVars>>


-----------------------------------------------------------------------------
(* csp.h: Constraint and its subclasses *)

\* MapColoringConstraint(place1, place2): Constraint({place1, place2})
MapColoringConstraint(place1, place2) ==
    [kind |-> "MapColoring", variables |-> <<place1, place2>>,
     place1 |-> place1, place2 |-> place2]

\* SendMoreMoneyConstraint(letters): Constraint(letters), _letters = letters
SendMoreMoneyConstraint(letters) ==
    [kind |-> "SendMoreMoney", variables |-> letters, letters |-> letters]

\* QueensConstraint(columns): Constraint(columns)
QueensConstraint(columns) ==
    [kind |-> "Queens", variables |-> columns, columns |-> columns]

\* WordSearchConstraint(words): Constraint(words)
WordSearchConstraint(words) ==
    [kind |-> "WordSearch", variables |-> words, words |-> words]

\* std::unordered_map::size
Size(assignment) == Cardinality(DOMAIN assignment)

\* std::unordered_map::operator[] on an int map: a missing key reads as 0
At(assignment, key) == IF key \in DOMAIN assignment THEN assignment[key] ELSE 0

\* (variant) equal colours accepted
MapColoringSatisfiedAlways(c, assignment) == TRUE

MapColoringSatisfied(c, assignment) ==
    IF c.place1 \notin DOMAIN assignment \/ c.place2 \notin DOMAIN assignment
    THEN TRUE
    ELSE assignment[c.place1] # assignment[c.place2]

\* (variant) the sum left unchecked
SendMoreMoneySatisfiedNoSum(c, assignment) ==
    Cardinality({ assignment[k] : k \in DOMAIN assignment }) >= Size(assignment)

SendMoreMoneySatisfied(c, assignment) ==
    LET values == { assignment[k] : k \in DOMAIN assignment }
    IN IF Cardinality(values) < Size(assignment) THEN FALSE
       ELSE IF Size(assignment) = Len(c.letters)
       THEN LET s == At(assignment, "S")
                e == At(assignment, "E")
                n == At(assignment, "N")
                d == At(assignment, "D")
                m == At(assignment, "M")
                o == At(assignment, "O")
                r == At(assignment, "R")
                y == At(assignment, "Y")
                send == s * 1000 + e * 100 + n * 10 + d
                more == m * 1000 + o * 100 + r * 10 + e
                money == m * 10000 + o * 1000 + n * 100 + e * 10 + y
            IN send + more = money
       ELSE TRUE

\* QueensConstraint::satisfied: false as soon as two of the assigned queens
\* share a row or a diagonal
QueensSatisfied(c, assignment) ==
    \A q1c \in DOMAIN assignment :
        \A q2c \in (q1c + 1) .. Len(c.columns) :
            q2c \in DOMAIN assignment =>
                LET q1r == assignment[q1c]
                    q2r == assignment[q2c]
                IN /\ q1r # q2r
                   /\ Abs(q1r - q2r) # Abs(q1c - q2c)

\* the locations of every assigned word, one after the other
RECURSIVE AllLocations(_)
AllLocations(assignment) ==
    IF DOMAIN assignment = {} THEN <<>>
    ELSE LET word == CHOOSE w \in DOMAIN assignment : TRUE
         IN assignment[word]
                \o AllLocations([w \in DOMAIN assignment \ {word} |-> assignment[w]])

\* WordSearchConstraint::satisfied: no location taken twice
WordSearchSatisfied(c, assignment) ==
    LET all_locations == AllLocations(assignment)
    IN Cardinality(SeqToSet(all_locations)) = Len(all_locations)

\* the virtual call constraint->satisfied(assignment)
satisfied(c, assignment) ==
    CASE c.kind = "MapColoring" -> MapColoringSatisfied(c, assignment)
      [] c.kind = "SendMoreMoney" -> SendMoreMoneySatisfied(c, assignment)
      [] c.kind = "Queens" -> QueensSatisfied(c, assignment)
      [] c.kind = "WordSearch" -> WordSearchSatisfied(c, assignment)

-----------------------------------------------------------------------------
(* csp.h: CSP *)

\* what is left when the constructor throws: no CSP object
NoObject == [threw |-> TRUE]

\* (variant) the constructor without its check of the domains
CSPNewUnchecked(variables, domains) ==
    [threw |-> FALSE,
     variables |-> variables,
     domains |-> domains,
     constraints |-> [v \in SeqToSet(variables) |-> <<>>]]

\* CSP::CSP: an empty constraint list for every variable; a variable without
\* a domain makes the constructor throw
CSPNew(variables, domains) ==
    IF \E i \in 1 .. Len(variables) : variables[i] \notin DOMAIN domains
    THEN NoObject
    ELSE [threw |-> FALSE,
          variables |-> variables,
          domains |-> domains,
          constraints |-> [v \in SeqToSet(variables) |-> <<>>]]

\* (variant) a variable that is not among _variables passed over
RECURSIVE AddConstraintSkipping(_, _, _, _)
AddConstraintSkipping(variables, constraints, constraint, i) ==
    IF i > Len(constraint.variables)
    THEN [threw |-> FALSE, constraints |-> constraints]
    ELSE LET variable == constraint.variables[i]
         IN IF variable \notin SeqToSet(variables)
            THEN AddConstraintSkipping(variables, constraints, constraint, i + 1)
            ELSE AddConstraintSkipping(variables,
                     [constraints EXCEPT ![variable] = Append(@, constraint)],
                     constraint, i + 1)

\* (variant) the constraint appended to the list of its first variable only
AddConstraintFirstOnly(variables, constraints, constraint, i) ==
    IF i > Len(constraint.variables)
    THEN [threw |-> FALSE, constraints |-> constraints]
    ELSE LET variable == constraint.variables[i]
         IN IF \E j \in i .. Len(constraint.variables) :
                   constraint.variables[j] \notin SeqToSet(variables)
            THEN [threw |-> TRUE, constraints |-> constraints]
            ELSE [threw |-> FALSE,
                  constraints |-> [constraints EXCEPT ![variable] = Append(@, constraint)]]

\* (variant) every variable looked up before the constraint is appended to
\* any list
AddConstraintChecked(variables, constraints, constraint, i) ==
    IF \E j \in i .. Len(constraint.variables) :
           constraint.variables[j] \notin SeqToSet(variables)
    THEN [threw |-> TRUE, constraints |-> constraints]
    ELSE AddConstraintSkipping(variables, constraints, constraint, i)

\* the loop of CSP::add_constraint from the i-th variable of the constraint
\* on: the constraint is appended to the list of each variable until one is
\* not among _variables, where the function throws
RECURSIVE AddConstraintFrom(_, _, _, _)
AddConstraintFrom(variables, constraints, constraint, i) ==
    IF i > Len(constraint.variables)
    THEN [threw |-> FALSE, constraints |-> constraints]
    ELSE LET variable == constraint.variables[i]
         IN IF variable \notin SeqToSet(variables)
            THEN [threw |-> TRUE, constraints |-> constraints]
            ELSE AddConstraintFrom(variables,
                     [constraints EXCEPT ![variable] = Append(@, constraint)],
                     constraint, i + 1)

\* (variant) every constraint of the CSP checked, under whichever variable
\* it is registered
consistent_with_all(c, variable, assignment) ==
    \A v \in DOMAIN c.constraints :
        \A k \in 1 .. Len(c.constraints[v]) : satisfied(c.constraints[v][k], assignment)

\* CSP::consistent
consistent(c, variable, assignment) ==
    \A k \in 1 .. Len(c.constraints[variable]) :
        satisfied(c.constraints[variable][k], assignment)

\* (variant) the variables with no value yet, the last declared first
UnassignedReversed(c, assignment) ==
    Reverse(SelectSeq(c.variables, LAMBDA v : v \notin DOMAIN assignment))

\* the copy_if of backtracking_search: the variables with no value yet, in
\* the order of _variables
Unassigned(c, assignment) ==
    SelectSeq(c.variables, LAMBDA v : v \notin DOMAIN assignment)

\* an activation of backtracking_search: its assignment parameter, its local
\* first, the index of the value the for loop is at, and where it stands
Activation(assignment) ==
    [assignment |-> assignment, first |-> "", i |-> 0, at |-> "entry"]

NoValue == [set |-> FALSE]

Returned(assignment) == [set |-> TRUE, val |-> assignment]

\* (variant) the for loop started at the second value of the domain
FirstValueSkipped(c) == 2

\* the for loop over _domains[first] starts at the first value
FirstValue(c) == 1

\* CSP::backtracking_search as the recursive function it is: the value a call
\* returns. TryValues is its for loop from the i-th value of the domain on.
RECURSIVE backtracking_search(_, _), TryValues(_, _, _, _)
backtracking_search(c, assignment) ==
    IF Size(assignment) = Len(c.variables)
    THEN assignment
    ELSE LET unassigned == Unassigned(c, assignment)
             first == Head(unassigned)
         IN TryValues(c, assignment, first, FirstValue(c))

TryValues(c, assignment, first, i) ==
    IF i > Len(c.domains[first])
    THEN <<>>
    ELSE LET value == c.domains[first][i]
             local_assignment == (first :> value) @@ assignment
         IN IF consistent(c, first, local_assignment)
            THEN LET result == backtracking_search(c, local_assignment)
                 IN IF Size(result) # 0
                    THEN result
                    ELSE TryValues(c, assignment, first, i + 1)
            ELSE TryValues(c, assignment, first, i + 1)

\* main(): csp.add_constraint(...) for the next constraint of the program
AddConstraint ==
    /\ pc = "add"
    /\ problem.to_add # <<>>
    /\ LET r == AddConstraintFrom(csp.variables, csp.constraints,
                                  Head(problem.to_add), 1)
       IN /\ csp' = [csp EXCEPT !.constraints = r.constraints]
          /\ pc' = IF r.threw THEN "threw" ELSE "add"
    /\ problem' = [problem EXCEPT !.to_add = Tail(@)]
    /\ UNCHANGED <<nodes, frontier, explored, explored_cost,
                   solution1, solution2, solution3, stack, ret, solution,
                   containsVars>>

\* main(): csp.backtracking_search(assignment)
SearchCall ==
    /\ pc = "add"
    /\ problem.to_add = <<>>
    /\ stack' = <<Activation(problem.assignment)>>
    /\ ret' = NoValue
    /\ pc' = "search"
    /\ UNCHANGED <<problem, nodes, frontier, explored, explored_cost,
                   solution1, solution2, solution3, csp, solution,
                   containsVars>>

\* if (assignment.size() == _variables.size()) return assignment;
BtBase ==
    /\ pc = "search"
    /\ stack # <<>>
    /\ Last(stack).at = "entry"
    /\ Size(Last(stack).assignment) = Len(csp.variables)
    /\ ret' = Returned(Last(stack).assignment)
    /\ stack' = Front(stack)
    /\ UNCHANGED <<problem, pc, nodes, frontier, explored, explored_cost,
                   solution1, solution2, solution3, csp, solution,
                   containsVars>>

\* first = unassigned.front(); front() of an empty vector is undefined
BtSelect ==
    /\ pc = "search"
    /\ stack # <<>>
    /\ Last(stack).at = "entry"
    /\ Size(Last(stack).assignment) # Len(csp.variables)
    /\ LET unassigned == Unassigned(csp, Last(stack).assignment)
       IN IF unassigned = <<>>
          THEN /\ pc' = "undefined"
               /\ UNCHANGED stack
          ELSE /\ stack' = [stack EXCEPT ![Len(stack)] =
                               [@ EXCEPT !.first = Head(unassigned),
                                         !.i = FirstValue(csp),
                                         !.at = "loop"]]
               /\ UNCHANGED pc
    /\ UNCHANGED <<problem, nodes, frontier, explored, explored_cost,
                   solution1, solution2, solution3, csp, ret, solution,
                   containsVars>>

\* (variant) the binding written into assignment itself, not into a copy
CallingInPlace(top, local_assignment) ==
    [top EXCEPT !.at = "call", !.assignment = local_assignment]

\* the calling activation while backtracking_search(local_assignment) runs:
\* local_assignment is a copy, the activation's own assignment stays as it is
Calling(top, local_assignment) == [top EXCEPT !.at = "call"]

\* one iteration of the for loop whose local_assignment is not consistent
BtReject ==
    /\ pc = "search"
    /\ stack # <<>>
    /\ LET top == Last(stack)
       IN /\ top.at = "loop"
          /\ top.i <= Len(csp.domains[top.first])
          /\ LET local_assignment ==
                     (top.first :> csp.domains[top.first][top.i]) @@ top.assignment
             IN ~consistent(csp, top.first, local_assignment)
          /\ stack' = [stack EXCEPT ![Len(stack)] = [@ EXCEPT !.i = top.i + 1]]
    /\ UNCHANGED <<problem, pc, nodes, frontier, explored, explored_cost,
                   solution1, solution2, solution3, csp, ret, solution,
                   containsVars>>

\* one iteration of the for loop whose local_assignment is consistent: the
\* recursive call backtracking_search(local_assignment)
BtRecurse ==
    /\ pc = "search"
    /\ stack # <<>>
    /\ LET top == Last(stack)
       IN /\ top.at = "loop"
          /\ top.i <= Len(csp.domains[top.first])
          /\ LET local_assignment ==
                     (top.first :> csp.domains[top.first][top.i]) @@ top.assignment
             IN /\ consistent(csp, top.first, local_assignment)
                /\ stack' = Append([stack EXCEPT ![Len(stack)] =
                                        Calling(top, local_assignment)],
                                   Activation(local_assignment))
    /\ UNCHANGED <<problem, pc, nodes, frontier, explored, explored_cost,
                   solution1, solution2, solution3, csp, ret, solution,
                   containsVars>>

\* the recursive call came back: if (result.size() != 0) return result;
BtPropagate ==
    /\ pc = "search"
    /\ stack # <<>>
    /\ Last(stack).at = "call"
    /\ ret.set
    /\ Size(ret.val) # 0
    /\ stack' = Front(stack)
    /\ UNCHANGED <<problem, pc, nodes, frontier, explored, explored_cost,
                   solution1, solution2, solution3, csp, ret, solution,
                   containsVars>>

\* the recursive call came back with the empty map: on to the next value
BtBacktrack ==
    /\ pc = "search"
    /\ stack # <<>>
    /\ Last(stack).at = "call"
    /\ ret.set
    /\ Size(ret.val) = 0
    /\ stack' = [stack EXCEPT ![Len(stack)] = [@ EXCEPT !.i = @ + 1, !.at = "loop"]]
    /\ ret' = NoValue
    /\ UNCHANGED <<problem, pc, nodes, frontier, explored, explored_cost,
                   solution1, solution2, solution3, csp, solution,
                   containsVars>>

\* the for loop ran out of values: return {};
BtExhausted ==
    /\ pc = "search"
    /\ stack # <<>>
    /\ LET top == Last(stack)
       IN /\ top.at = "loop"
          /\ top.i > Len(csp.domains[top.first])
    /\ ret' = Returned(<<>>)
    /\ stack' = Front(stack)
    /\ UNCHANGED <<problem, pc, nodes, frontier, explored, explored_cost,
                   solution1, solution2, solution3, csp, solution,
                   containsVars>>

\* the outermost backtracking_search returned to main()
SearchReturn ==
    /\ pc = "search"
    /\ stack = <<>>
    /\ ret.set
    /\ solution' = ret
    /\ pc' = "done"
    /\ UNCHANGED <<problem, nodes, frontier, explored, explored_cost,
                   solution1, solution2, solution3, csp, stack, ret,
                   containsVars>>

-----------------------------------------------------------------------------
(* the programs that build a CSP *)

\* map_coloring.cpp: main()
MapVariables ==
    <<"Western Australia", "Northern Territory", "South Australia",
      "Queensland", "New South Wales", "Victoria", "Tasmania">>

MapColors == <<"red", "green", "blue">>

MapConstraints ==
    << MapColoringConstraint("Western Australia", "Northern Territory"),
       MapColoringConstraint("Western Australia", "South Australia"),
       MapColoringConstraint("South Australia", "Northern Territory"),
       MapColoringConstraint("Queensland", "Northern Territory"),
       MapColoringConstraint("Queensland", "South Australia"),
       MapColoringConstraint("Queensland", "New South Wales"),
       MapColoringConstraint("New South Wales", "South Australia"),
       MapColoringConstraint("Victoria", "South Australia"),
       MapColoringConstraint("Victoria", "New South Wales"),
       MapColoringConstraint("Victoria", "Tasmania") >>

MapColoringProblem ==
    [kind |-> "map_coloring",
     variables |-> MapVariables,
     domains |-> [v \in SeqToSet(MapVariables) |-> MapColors],
     to_add |-> MapConstraints,
     assignment |-> <<>>]

\* send_more_money.cpp: main()
Letters == <<"S", "E", "N", "D", "M", "O", "R", "Y">>

Digits == <<0, 1, 2, 3, 4, 5, 6, 7, 8, 9>>

SendMoreMoneyProblem ==
    [kind |-> "send_more_money",
     variables |-> Letters,
     domains |-> [v \in SeqToSet(Letters) |-> IF v = "M" THEN <<1>> ELSE Digits],
     to_add |-> <<SendMoreMoneyConstraint(Letters)>>,
     assignment |-> <<>>]

\* colouring problems over the first regions of the map: each region with a
\* domain of one or two colours, any set of borders as constraints
Regions(k) == SubSeq(MapVariables, 1, k)

DomainChoices == { <<"red">>, <<"red", "green">>, <<"green", "red">> }

Borders(k) == { <<i, j>> \in (1 .. k) \X (1 .. k) : i < j }

\* the constraints of a set of borders, in the order of the regions
RECURSIVE BorderConstraints(_, _)
BorderConstraints(k, B) ==
    IF B = {} THEN <<>>
    ELSE LET b == CHOOSE x \in B :
                     \A y \in B : x[1] < y[1] \/ (x[1] = y[1] /\ x[2] <= y[2])
         IN <<MapColoringConstraint(MapVariables[b[1]], MapVariables[b[2]])>>
                \o BorderConstraints(k, B \ {b})

ColoringProblems(n) ==
    UNION { { [kind |-> "coloring",
               variables |-> Regions(k),
               domains |-> d,
               to_add |-> BorderConstraints(k, B),
               assignment |-> <<>>] :
                 d \in [SeqToSet(Regions(k)) -> DomainChoices],
                 B \in SUBSET Borders(k) } :
            k \in 1 .. n }

\* the same problems, searched from an assignment the caller passes
PartialAssignments(p) ==
    UNION { [S -> {"red", "green"}] : S \in SUBSET SeqToSet(p.variables) }

AssignedColoringProblems(n) ==
    UNION { { [p EXCEPT !.assignment = a] : a \in PartialAssignments(p) } :
            p \in ColoringProblems(n) }

\* binary_contains is not called
NoContains ==
    /\ begin = 0
    /\ end = 0
    /\ contained = NoValue

\* no search of generic_search.h is run by the programs that build a CSP
NoSearch ==
    /\ nodes = <<>>
    /\ frontier = <<>>
    /\ explored = {}
    /\ explored_cost = <<>>
    /\ solution1 = NotFound
    /\ solution2 = NotFound
    /\ solution3 = NotFound

InitCSPOf(problems) ==
    /\ problem \in problems
    /\ csp = CSPNew(problem.variables, problem.domains)
    /\ pc = IF csp.threw THEN "threw" ELSE "add"
    /\ stack = <<>>
    /\ ret = NoValue
    /\ solution = NoValue
    /\ NoSearch
    /\ NoContains

InitCSP == InitCSPOf(ColoringProblems(NumRegions) \cup {MapColoringProblem})

InitCSPFrom == InitCSPOf(AssignedColoringProblems(NumRegions))

NextCSP ==
    \/ AddConstraint
    \/ SearchCall
    \/ BtBase
    \/ BtSelect
    \/ BtReject
    \/ BtRecurse
    \/ BtPropagate
    \/ BtBacktrack
    \/ BtExhausted
    \/ SearchReturn

SpecCSP == InitCSP /\ [][NextCSP]_vars

\* main(): solution = csp.backtracking_search(), the call taken as one step
Solve ==
    /\ pc = "add"
    /\ problem.to_add = <<>>
    /\ solution' = Returned(backtracking_search(csp, problem.assignment))
    /\ pc' = "done"
    /\ UNCHANGED <<problem, nodes, frontier, explored, explored_cost,
                   solution1, solution2, solution3, csp, stack, ret,
                   containsVars>>

InitSolve ==
    InitCSPOf(ColoringProblems(NumRegions) \cup {MapColoringProblem, SendMoreMoneyProblem})

NextSolve ==
    \/ AddConstraint
    \/ Solve

SpecSolve == InitSolve /\ [][NextSolve]_vars

SpecCSPFrom == InitCSPFrom /\ [][NextCSP]_vars

-----------------------------------------------------------------------------
(* the programs that run a search *)

\* no CSP is built by maze.cpp or missionaries.cc
NoCSP ==
    /\ csp = [variables |-> <<>>]
    /\ stack = <<>>
    /\ ret = NoValue
    /\ solution = NoValue

SearchProblems(rows, columns, m) ==
    MazeProblems(rows, columns) \cup GraphProblems(m) \cup {MCProblem}

Init ==
    /\ problem \in SearchProblems(MazeRows, MazeColumns, MaxEdges)
    /\ pc = IF problem.kind = "mc" THEN "call_bfs" ELSE "call_dfs"
    /\ nodes = <<>>
    /\ frontier = <<>>
    /\ explored = {}
    /\ explored_cost = <<>>
    /\ solution1 = NotFound
    /\ solution2 = NotFound
    /\ solution3 = NotFound
    /\ NoCSP
    /\ NoContains

Next ==
    \/ DfsCall
    \/ DfsStep
    \/ DfsExhausted
    \/ BfsCall
    \/ BfsStep
    \/ BfsExhausted
    \/ AstarCall
    \/ AstarStep
    \/ AstarExhausted

Spec == Init /\ [][Next]_vars

-----------------------------------------------------------------------------
(* What the claims are measured against: the state space itself *)

SuccessorSet(p, S) ==
    UNION { { successors(p, s)[i] : i \in 1 .. Len(successors(p, s)) } : s \in S }

\* the number of successor steps from the states of layer to the nearest
\* state satisfying goal_test, counted from d; -1 when there is none
RECURSIVE StepsToGoal(_, _, _, _)
StepsToGoal(p, layer, seen, d) ==
    IF \E s \in layer : goal_test(p, s) THEN d
    ELSE LET next == SuccessorSet(p, layer) \ seen
         IN IF next = {} THEN -1
            ELSE StepsToGoal(p, next, seen \cup next, d + 1)

Distance(p, s) == StepsToGoal(p, {s}, {s}, 0)

GoalReachable(p) == Distance(p, p.start) >= 0

StatesOf(p) ==
    CASE p.kind = "maze" -> Cells(p.rows, p.columns)
      [] p.kind = "graph" -> GraphStates
      [] p.kind = "mc" ->
           { MCState(m, c, b) : m \in 0 .. MAX_NUM, c \in 0 .. MAX_NUM, b \in BOOLEAN }

\* never above the true remaining cost
Admissible(p) ==
    \A s \in StatesOf(p) : Distance(p, s) >= 0 => heuristic(p, s) <= Distance(p, s)

Consistent(p) ==
    \A s \in StatesOf(p) :
        /\ goal_test(p, s) => heuristic(p, s) = 0
        /\ \A i \in 1 .. Len(successors(p, s)) :
               heuristic(p, s) <= 1 + heuristic(p, successors(p, s)[i])

\* a sequence of states that starts at the initial state and follows successors
SuccessorPath(p, path) ==
    /\ path # <<>>
    /\ path[1] = p.start
    /\ \A k \in 2 .. Len(path) :
         \E i \in 1 .. Len(successors(p, path[k - 1])) :
             successors(p, path[k - 1])[i] = path[k]

\* main() of maze.cpp holds the result of dfs and is about to call bfs
DfsReturned == problem.kind # "mc" /\ pc = "call_bfs"
\* main() holds the result of bfs (and, in maze.cpp, still that of dfs)
BfsReturned == pc = AfterSearch(problem, "bfs")
\* main() of maze.cpp holds the results of dfs, bfs and astar
AstarReturned == problem.kind # "mc" /\ pc = "done"

-----------------------------------------------------------------------------
(* Claims *)

\* C1: with unit step cost and an admissible, consistent heuristic, a path
\* found by astar has as many states as the path bfs returns on the same
\* instance, and no more states than the path dfs returns.
C1_AstarAsShortAsBfs ==
    (AstarReturned /\ solution3.found /\ Admissible(problem) /\ Consistent(problem))
        => /\ solution2.found
           /\ Len(solution3.path) = Len(solution2.path)
           /\ solution1.found
           /\ Len(solution3.path) <= Len(solution1.path)

\* C2: a path returned by bfs has the minimum number of edges among the
\* successor-paths from the initial state to a goal state, and is never
\* longer than the path dfs returns on the same instance.
C2_BfsShortest ==
    (BfsReturned /\ solution2.found)
        => /\ Len(solution2.path) - 1 = Distance(problem, problem.start)
           /\ (problem.kind # "mc" /\ solution1.found)
                 => Len(solution2.path) <= Len(solution1.path)

\* bfs has returned a path strictly shorter than the one dfs returned
C2_Witness ==
    /\ BfsReturned
    /\ problem.kind # "mc"
    /\ solution1.found
    /\ solution2.found
    /\ Len(solution2.path) < Len(solution1.path)
    /\ Len(solution2.path) >= 3

ReturnedRight(p, sol) ==
    sol.found =>
        /\ goal_test(p, sol.state)
        /\ SuccessorPath(p, sol.path)
        /\ sol.path[Len(sol.path)] = sol.state

\* C3: a node returned by dfs, bfs or astar holds a state satisfying
\* goal_test, and node_to_path of it starts at the initial state, ends at the
\* node's state and goes from each state to one of its successors.
C3_ReturnedPathSound ==
    /\ DfsReturned => ReturnedRight(problem, solution1)
    /\ BfsReturned => ReturnedRight(problem, solution2)
    /\ AstarReturned => ReturnedRight(problem, solution3)

\* the three searches have each returned a path of at least three states
C3_Witness ==
    /\ AstarReturned
    /\ solution1.found /\ Len(solution1.path) >= 3
    /\ solution2.found /\ Len(solution2.path) >= 3
    /\ solution3.found /\ Len(solution3.path) >= 3

\* C4: dfs and bfs return nullptr exactly when no state satisfying goal_test
\* can be reached from the initial state, so they agree on every input.
C4_NotFoundIffUnreachable ==
    /\ DfsReturned => (solution1.found <=> GoalReachable(problem))
    /\ BfsReturned => (solution2.found <=> GoalReachable(problem))
    /\ (BfsReturned /\ problem.kind # "mc") => (solution1.found <=> solution2.found)

\* dfs and bfs have both returned nullptr after expanding more than the root
C4_Witness ==
    /\ BfsReturned
    /\ problem.kind # "mc"
    /\ ~solution1.found
    /\ ~solution2.found
    /\ Len(nodes) >= 3

MCReturned == problem.kind = "mc" /\ pc = "done"

\* C8 (as stated): the search of missionaries.cc returns a path of exactly
\* 11 states.
C8_PathOfElevenStates ==
    MCReturned => (solution2.found /\ Len(solution2.path) = 11)

\* C8 (amended): the search of missionaries.cc returns a path of exactly 12
\* states, the initial state and the states after each of 11 crossings.
C8_PathOfTwelveStates ==
    MCReturned => (solution2.found /\ Len(solution2.path) = 12)

\* bfs has returned to main() of missionaries.cc with everybody on the east bank
C8_Witness ==
    /\ MCReturned
    /\ solution2.found
    /\ solution2.state = MCState(0, 0, FALSE)

\* on each bank the missionaries are absent or not outnumbered
NeverOutnumbered(s) ==
    /\ (s.wm = 0 \/ s.wm >= s.wc)
    /\ (s.em = 0 \/ s.em >= s.ec)

\* C9: every state MCState::successors returns is legal, so every state the
\* search enqueues is, and so is every state of the returned path.
C9_OnlyLegalStates ==
    problem.kind = "mc" =>
        /\ \A s \in StatesOf(problem) :
              \A i \in 1 .. Len(successors(problem, s)) :
                  NeverOutnumbered(successors(problem, s)[i])
        /\ \A n \in 1 .. Len(nodes) :
              /\ NeverOutnumbered(nodes[n].state)
              /\ \A i \in 1 .. Len(successors(problem, nodes[n].state)) :
                    NeverOutnumbered(successors(problem, nodes[n].state)[i])
        /\ \A k \in 1 .. Len(solution2.path) : NeverOutnumbered(solution2.path[k])

\* the returned path holds a state from which an illegal crossing was possible
C9_Witness ==
    /\ MCReturned
    /\ solution2.found
    /\ \E k \in 1 .. Len(solution2.path) :
         \E i \in 1 .. Len(MCCandidates(solution2.path[k])) :
            ~NeverOutnumbered(MCCandidates(solution2.path[k])[i])

-----------------------------------------------------------------------------
(* Claims about the CSP solver *)

\* the constraints held by the CSP, whichever variable they are listed under
Registered(c) ==
    UNION { SeqToSet(c.constraints[v]) : v \in DOMAIN c.constraints }

\* a value for every declared variable
BindsEveryVariable(c, assignment) ==
    \A v \in SeqToSet(c.variables) : v \in DOMAIN assignment

SatisfiesAll(c, assignment) ==
    \A k \in Registered(c) : satisfied(k, assignment)

\* the complete assignments drawn from the domains
CompleteAssignments(c) ==
    { a \in [SeqToSet(c.variables) -> UNION { SeqToSet(c.domains[v]) : v \in DOMAIN c.domains }] :
        \A v \in SeqToSet(c.variables) : a[v] \in SeqToSet(c.domains[v]) }

Satisfiable(c) == \E a \in CompleteAssignments(c) : SatisfiesAll(c, a)

SearchDone == pc = "done" /\ solution.set

\* C5: whatever assignment backtracking_search is called with, a non-empty
\* result binds every declared variable and satisfies every constraint of
\* the CSP.
C5_ResultCompleteAndSatisfying ==
    (SearchDone /\ Size(solution.val) # 0)
        => /\ BindsEveryVariable(csp, solution.val)
           /\ SatisfiesAll(csp, solution.val)

\* C6: from the empty assignment, on a CSP with at least one variable, the
\* result is empty when no complete assignment drawn from the domains
\* satisfies all constraints and non-empty when one does.
C6_EmptyIffUnsatisfiable ==
    (SearchDone /\ Len(csp.variables) >= 1)
        => (Size(solution.val) = 0 <=> ~Satisfiable(csp))

\* two regions with the same single colour and a border between them: the
\* search came back empty
C6_Witness ==
    /\ SearchDone
    /\ Size(solution.val) = 0
    /\ csp.variables = Regions(2)
    /\ csp.domains["Western Australia"] = <<"red">>
    /\ csp.domains["Northern Territory"] = <<"red">>
    /\ Registered(csp) # {}

SendMoreMoneyAnswer ==
    ("S" :> 9) @@ ("E" :> 5) @@ ("N" :> 6) @@ ("D" :> 7) @@
    ("M" :> 1) @@ ("O" :> 0) @@ ("R" :> 8) @@ ("Y" :> 2)

\* the values main() gave a letter to choose from
DigitsOf(letter) == SeqToSet(csp.domains[letter])

\* no other complete assignment drawn from the domains satisfies the constraint
OnlyAnswer ==
    LET registered == Registered(csp)
    IN \A s \in DigitsOf("S"), e \in DigitsOf("E"), n \in DigitsOf("N"),
          d \in DigitsOf("D"), m \in DigitsOf("M"), o \in DigitsOf("O"),
          r \in DigitsOf("R"), y \in DigitsOf("Y") :
           LET a == ("S" :> s) @@ ("E" :> e) @@ ("N" :> n) @@ ("D" :> d) @@
                    ("M" :> m) @@ ("O" :> o) @@ ("R" :> r) @@ ("Y" :> y)
           IN (\A k \in registered : satisfied(k, a)) => a = SendMoreMoneyAnswer

\* C7: on SEND+MORE=MONEY the search returns S=9 E=5 N=6 D=7 M=1 O=0 R=8 Y=2,
\* the only assignment that satisfies the constraint.
C7_SendMoreMoney ==
    (SearchDone /\ problem.kind = "send_more_money")
        => /\ solution.val = SendMoreMoneyAnswer
           /\ OnlyAnswer

\* main() of send_more_money.cpp has its solution, and it is not empty
C7_Witness ==
    /\ SearchDone
    /\ problem.kind = "send_more_money"
    /\ Size(solution.val) = Len(Letters)

\* C10: on the map of Australia the search returns a non-empty assignment in
\* which the two regions of every added constraint have different colours.
C10_MapColored ==
    (SearchDone /\ problem.kind = "map_coloring")
        => /\ Size(solution.val) # 0
           /\ \A i \in 1 .. Len(MapConstraints) :
                 /\ MapConstraints[i].place1 \in DOMAIN solution.val
                 /\ MapConstraints[i].place2 \in DOMAIN solution.val
                 /\ solution.val[MapConstraints[i].place1]
                        # solution.val[MapConstraints[i].place2]

\* main() of map_coloring.cpp has its solution, after all ten constraints
\* were added
C10_Witness ==
    /\ SearchDone
    /\ problem.kind = "map_coloring"
    /\ Cardinality(Registered(csp)) = 10
    /\ Size(solution.val) = Len(MapVariables)

-----------------------------------------------------------------------------
(* node_to_path on any forest of nodes *)

\* the states the nodes of a forest hold; two nodes may hold the same state
Labels == {"x", "y"}

\* the forests of n nodes: every node has no parent (0) or a parent
\* allocated before it
Forests(n) ==
    { f \in [1 .. n -> [state : Labels, parent : 0 .. n - 1, cost : {0}, heuristic : {0}]] :
        \A i \in 1 .. n : f[i].parent < i }

PathProblems(n) ==
    UNION { { [kind |-> "path", forest |-> f, node |-> node] :
                f \in Forests(k), node \in 1 .. k } : k \in 1 .. n }

InitPath ==
    /\ problem \in PathProblems(MaxNodes)
    /\ nodes = problem.forest
    /\ pc = "call_node_to_path"
    /\ frontier = <<>>
    /\ explored = {}
    /\ explored_cost = <<>>
    /\ solution1 = NotFound
    /\ solution2 = NotFound
    /\ solution3 = NotFound
    /\ NoCSP
    /\ NoContains

\* auto path = node_to_path(node)
NodeToPath ==
    /\ pc = "call_node_to_path"
    /\ solution1' = Found(nodes, problem.node)
    /\ pc' = "done"
    /\ UNCHANGED <<problem, nodes, frontier, explored, explored_cost,
                   solution2, solution3, cspVars, containsVars>>

NextPath ==
    \/ NodeToPath

SpecPath == InitPath /\ [][NextPath]_vars

\* the number of nodes from a node up to the one with no parent
RECURSIVE ChainLength(_, _)
ChainLength(ns, node) ==
    IF ns[node].parent = 0 THEN 1 ELSE 1 + ChainLength(ns, ns[node].parent)

\* the node j parent links above a node
RECURSIVE Ancestor(_, _, _)
Ancestor(ns, node, j) ==
    IF j = 0 THEN node ELSE Ancestor(ns, ns[node].parent, j - 1)

PathReturned == problem.kind = "path" /\ pc = "done"

\* C11: node_to_path returns one state per node of the parent chain, ordered
\* from the root (the node with no parent) to the given node.
C11_PathIsChainFromRoot ==
    PathReturned =>
        LET path == solution1.path
            n == ChainLength(nodes, problem.node)
        IN /\ Len(path) = n
           /\ nodes[Ancestor(nodes, problem.node, n - 1)].parent = 0
           /\ \A k \in 1 .. n :
                 path[k] = nodes[Ancestor(nodes, problem.node, n - k)].state

\* a path of three states or more, two of them equal, from a forest with a
\* node outside the chain
C11_Witness ==
    /\ PathReturned
    /\ Len(solution1.path) >= 3
    /\ solution1.path[1] = solution1.path[3]
    /\ solution1.path[1] # solution1.path[2]
    /\ Len(nodes) > Len(solution1.path)

-----------------------------------------------------------------------------
(* programs that hand the CSP what it has to refuse *)

\* a domain for some of the first n regions only, declared or not
LackingDomainProblems(n) ==
    { [kind |-> "coloring",
       variables |-> Regions(k),
       domains |-> [v \in D |-> <<"red", "green">>],
       to_add |-> <<>>,
       assignment |-> <<>>] :
         k \in 0 .. n, D \in SUBSET SeqToSet(Regions(n)) }

\* the constraints between two of the first n regions, either one first
AnyConstraints(n) ==
    { MapColoringConstraint(MapVariables[b[1]], MapVariables[b[2]]) :
        b \in { x \in (1 .. n) \X (1 .. n) : x[1] # x[2] } }

\* the sequences of at most m elements of S
SeqsUpTo(S, m) == UNION { [1 .. l -> S] : l \in 0 .. m }

\* the first k of n regions declared, every constraint between two of the n
\* regions possibly added
ForeignConstraintProblems(n, m) ==
    { [kind |-> "coloring",
       variables |-> Regions(k),
       domains |-> [v \in SeqToSet(Regions(k)) |-> <<"red", "green">>],
       to_add |-> adds,
       assignment |-> <<>>] :
         k \in 0 .. n, adds \in SeqsUpTo(AnyConstraints(n), m) }

InitAdd ==
    InitCSPOf(LackingDomainProblems(NumRegions)
                  \cup ForeignConstraintProblems(NumRegions, MaxAdds))

SpecAdd == InitAdd /\ [][NextSolve]_vars

\* the constraint main() is about to add names a variable the CSP was not
\* declared with
AddsUndeclared ==
    /\ pc = "add"
    /\ problem.to_add # <<>>
    /\ \E i \in 1 .. Len(Head(problem.to_add).variables) :
          Head(problem.to_add).variables[i] \notin SeqToSet(csp.variables)

\* C12: add_constraint with a constraint naming an undeclared variable, at
\* any position of its list, throws at that call.
C12_UndeclaredVariableThrows ==
    [][AddsUndeclared => pc' = "threw"]_vars

\* add_constraint has thrown on a constraint whose first variable is declared
\* (the constraint was appended to that variable's list before the throw)
C12_Witness ==
    /\ pc = "threw"
    /\ ~csp.threw
    /\ \E v \in DOMAIN csp.constraints :
          \E i \in 1 .. Len(csp.constraints[v]) :
              csp.constraints[v][i].place2 \notin SeqToSet(csp.variables)

\* C13: constructing a CSP with a variable that has no entry in the domain
\* mapping throws, so no CSP object has a declared variable without a domain.
C13_NoCSPWithoutDomain ==
    /\ (\E i \in 1 .. Len(problem.variables) :
            problem.variables[i] \notin DOMAIN problem.domains)
          => (csp = NoObject /\ pc = "threw")
    /\ ~csp.threw =>
          \A v \in SeqToSet(csp.variables) : v \in DOMAIN csp.domains

\* the constructor has thrown for two or more variables of which one has a
\* domain and one has none
C13_Witness ==
    /\ csp = NoObject
    /\ pc = "threw"
    /\ Len(problem.variables) >= 2
    /\ \E v \in SeqToSet(problem.variables) : v \in DOMAIN problem.domains
    /\ \E v \in SeqToSet(problem.variables) : v \notin DOMAIN problem.domains

\* C14: a search that found a node does not return nullptr, and
\* backtracking_search does not return the empty map for a CSP that has a
\* satisfying assignment, a CSP of zero variables included.
C14_NegativeResultDistinct ==
    /\ \A sol \in {solution1, solution2, solution3} : sol.found => sol.path # <<>>
    /\ (SearchDone /\ Satisfiable(csp)) => Size(solution.val) # 0

-----------------------------------------------------------------------------
(* dfs and bfs run to their return *)

\* main() up to the return of bfs
NextDfsBfs ==
    \/ DfsCall
    \/ DfsStep
    \/ DfsExhausted
    \/ BfsCall
    \/ BfsStep
    \/ BfsExhausted

\* the program keeps running: a step that can be taken is taken
SpecDfsBfs == Init /\ [][NextDfsBfs]_vars /\ WF_vars(NextDfsBfs)

\* C15: on a finite state space dfs and bfs terminate, with a node or with
\* nullptr, also when successors lead back to the initial state.
C15_DfsBfsTerminate == <>BfsReturned

\* bfs has returned after a successor led back to the initial state, which
\* was enqueued again
C15_Witness ==
    /\ BfsReturned
    /\ \E n \in 2 .. Len(nodes) : nodes[n].state = problem.start

-----------------------------------------------------------------------------
(* Claims about the order of expansion *)

\* the node a step of the running search removes from the frontier
Popped == CHOOSE n \in SeqToSet(frontier) : n \notin SeqToSet(frontier')

\* what Node::operator< compares
FCost(node) == node.cost + node.heuristic

\* C16: the node astar removes from the frontier has the smallest cost +
\* heuristic of all nodes in the frontier at that moment.
C16_AstarPopsSmallest ==
    [][(pc = "astar" /\ frontier # <<>>)
          => \A m \in SeqToSet(frontier) : FCost(nodes[Popped]) <= FCost(nodes[m])]_vars

\* the nodes astar created for the state of the node it returned
GoalNodes == { n \in 1 .. Len(nodes) : nodes[n].state = solution3.state }

\* C17: when astar returns a goal node whose state was pushed several times
\* with different costs, the returned node's cost is the one recorded for
\* the state in the best-cost map.
C17_ReturnsCheapestGoalNode ==
    (AstarReturned /\ solution3.found
        /\ \E n1, n2 \in GoalNodes : nodes[n1].cost # nodes[n2].cost)
      => /\ solution3.state \in DOMAIN explored_cost
         /\ solution3.cost = explored_cost[solution3.state]

\* nodes holds the nodes of a dfs or bfs call, running or just returned
DfsBfsNodes ==
    \/ pc \in {"dfs", "bfs", "call_bfs", "call_astar"}
    \/ problem.kind = "mc" /\ pc = "done"

\* C18: in a dfs or bfs run no state, the initial state included, is
\* enqueued (has a node created for it) more than once.
C18_EnqueuedOnce ==
    DfsBfsNodes =>
        \A n1, n2 \in 1 .. Len(nodes) :
            nodes[n1].state = nodes[n2].state => n1 = n2

\* the nodes a step creates
NewNodes == (Len(nodes) + 1) .. Len(nodes')

\* the states whose entry of the best-cost map a step writes
Written ==
    { s \in DOMAIN explored_cost' :
        s \notin DOMAIN explored_cost \/ explored_cost'[s] # explored_cost[s] }

\* C19: in astar an entry of the best-cost map is written only for a state
\* with no entry or with a strictly higher recorded cost, so a recorded cost
\* never increases; every write pushes exactly one new node for that state
\* with that cost, and only the root is pushed without a write.
C19_BestCostWrites ==
    [][/\ pc = "call_astar" => (Len(nodes') = 1 /\ explored_cost' = <<>>)
       /\ pc = "astar" =>
            /\ SubSeq(nodes', 1, Len(nodes)) = nodes
            /\ \A s \in DOMAIN explored_cost :
                  /\ s \in DOMAIN explored_cost'
                  /\ explored_cost'[s] <= explored_cost[s]
            /\ \A s \in Written :
                  Cardinality({ n \in NewNodes : nodes'[n].state = s }) = 1
            /\ \A n \in NewNodes :
                  /\ nodes'[n].state \in Written
                  /\ nodes'[n].cost = explored_cost'[nodes'[n].state]
                  /\ SeqToSet(frontier') \cap {n} # {}]_vars

\* astar has lowered the recorded cost of a state: two nodes of the state
\* with different costs, the map holding the lower
C19_Witness ==
    /\ pc = "astar"
    /\ \E n1, n2 \in 2 .. Len(nodes) :
          /\ nodes[n1].state = nodes[n2].state
          /\ nodes[n1].cost > nodes[n2].cost
          /\ nodes[n2].cost >= 2
          /\ explored_cost[nodes[n1].state] = nodes[n2].cost

\* C20: dfs expands the node pushed last of those in the frontier, bfs the
\* node pushed first, so bfs expands nodes in non-decreasing order of depth.
\* (Nodes are numbered in the order they are created and pushed.)
C20_StackAndQueueOrder ==
    [][/\ (pc = "dfs" /\ frontier # <<>>)
            => \A m \in SeqToSet(frontier) : m <= Popped
       /\ (pc = "bfs" /\ frontier # <<>>)
            => /\ \A m \in SeqToSet(frontier) :
                     /\ Popped <= m
                     /\ ChainLength(nodes, Popped) <= ChainLength(nodes, m)
               /\ \A e \in (1 .. Len(nodes)) \ SeqToSet(frontier) :
                     ChainLength(nodes, e) <= ChainLength(nodes, Popped)]_vars

\* after a dfs that went three states deep, bfs holds a frontier with nodes
\* of two depths
C20_Witness ==
    /\ pc = "bfs"
    /\ solution1.found
    /\ Len(solution1.path) >= 3
    /\ Len(frontier) >= 2
    /\ ChainLength(nodes, frontier[1]) < ChainLength(nodes, frontier[Len(frontier)])

-----------------------------------------------------------------------------
(* Claims about the nodes a search creates *)

\* nodes holds the nodes of an astar call, running or returned
AstarNodes == pc = "astar" \/ AstarReturned

\* C21: every node astar creates has cost equal to the number of parent
\* links between it and the root and heuristic equal to heuristic(state);
\* every node dfs or bfs creates has cost 0 and heuristic 0; in all three
\* every parent chain is finite and ends at the one root node, the only node
\* whose parent is absent.
C21_NodeFields ==
    /\ \A n \in 1 .. Len(nodes) :
          /\ nodes[n].parent < n
          /\ nodes[n].parent = 0 <=> n = 1
    /\ DfsBfsNodes =>
          \A n \in 1 .. Len(nodes) : nodes[n].cost = 0 /\ nodes[n].heuristic = 0
    /\ AstarNodes =>
          /\ nodes # <<>>
          /\ nodes[1].state = problem.start
          /\ \A n \in 1 .. Len(nodes) :
                /\ nodes[n].cost = ChainLength(nodes, n) - 1
                /\ nodes[n].parent # 0 => nodes[n].cost = nodes[nodes[n].parent].cost + 1
                /\ nodes[n].heuristic = heuristic(problem, nodes[n].state)

\* astar holds a node three parent links below the root whose heuristic is
\* not 0, after dfs and bfs created nodes of their own
C21_Witness ==
    /\ pc = "astar"
    /\ solution1.found
    /\ solution2.found
    /\ \E n \in 1 .. Len(nodes) :
          /\ nodes[n].cost = 3
          /\ nodes[n].heuristic > 0
          /\ ChainLength(nodes, n) = 4

-----------------------------------------------------------------------------
(* Constraint::satisfied on any assignment *)

\* the assignments of some of the variables S to values of V
PartialMaps(S, V) == UNION { [T -> V] : T \in SUBSET S }

\* word_search.cc: main()
Words == <<"MATTHEW", "JOE", "MARY", "SARAH", "SALLY">>

\* lists of two grid locations, left to right or top to bottom, as
\* generate_domain builds them
LocationLists ==
    { l \in Cells(2, 2) \X Cells(2, 2) :
        \/ l[2][1] = l[1][1] /\ l[2][2] = l[1][2] + 1
        \/ l[2][1] = l[1][1] + 1 /\ l[2][2] = l[1][2] }

\* the calls of satisfied: a constraint of one subclass and an assignment of
\* some of its variables
SatisfiedCall(c, a) == [kind |-> "satisfied", constraint |-> c, assignment |-> a]

MapColoringCalls(n) ==
    { SatisfiedCall(c, a) :
        c \in AnyConstraints(n),
        a \in PartialMaps(SeqToSet(Regions(n)), {"red", "green"}) }

QueensCalls(q) ==
    UNION { { SatisfiedCall(QueensConstraint([i \in 1 .. k |-> i]), a) :
                a \in PartialMaps(1 .. k, 1 .. k) } : k \in 1 .. q }

SendMoreMoneyCalls(l) ==
    UNION { { SatisfiedCall(SendMoreMoneyConstraint(SubSeq(Letters, 1, k)), a) :
                a \in PartialMaps(SeqToSet(SubSeq(Letters, 1, k)),
                                  SeqToSet(SubSeq(Digits, 1, l))) } : k \in 1 .. l }

WordSearchCalls(w) ==
    UNION { { SatisfiedCall(WordSearchConstraint(SubSeq(Words, 1, k)), a) :
                a \in PartialMaps(SeqToSet(SubSeq(Words, 1, k)), LocationLists) } :
            k \in 1 .. w }

InitSatisfied ==
    /\ \/ problem \in MapColoringCalls(NumRegions)
       \/ problem \in QueensCalls(MaxQueens)
       \/ problem \in SendMoreMoneyCalls(MaxLetters)
       \/ problem \in WordSearchCalls(MaxWords)
    /\ pc = "call_satisfied"
    /\ NoSearch
    /\ NoCSP
    /\ NoContains

\* constraint->satisfied(assignment), as CSP::consistent calls it
Satisfied ==
    /\ pc = "call_satisfied"
    /\ ret' = Returned(satisfied(problem.constraint, problem.assignment))
    /\ pc' = "done"
    /\ UNCHANGED <<problem, nodes, frontier, explored, explored_cost,
                   solution1, solution2, solution3, csp, stack, solution,
                   containsVars>>

NextSatisfied ==
    \/ Satisfied

SpecSatisfied == InitSatisfied /\ [][NextSatisfied]_vars

\* satisfied has returned for an assignment that leaves one of the
\* constraint's variables without a value
ReturnedWhileUnassigned ==
    /\ problem.kind = "satisfied"
    /\ pc = "done"
    /\ \E i \in 1 .. Len(problem.constraint.variables) :
          problem.constraint.variables[i] \notin DOMAIN problem.assignment

\* C22: every Constraint subclass of the repository returns true from
\* satisfied whenever at least one of the constraint's variables is not yet
\* assigned.
C22_TrueWhileUnassigned ==
    ReturnedWhileUnassigned => ret.val = TRUE

-----------------------------------------------------------------------------
(* Claims about the order of the backtracking search *)

\* where a value stands in the domain of a variable
PositionIn(c, v, value) ==
    CHOOSE i \in 1 .. Len(c.domains[v]) : c.domains[v][i] = value

\* the declared variables on which two complete assignments differ
Differing(c, a, b) == { i \in 1 .. Len(c.variables) : a[c.variables[i]] # b[c.variables[i]] }

\* a comes before b, or is b: at the first declared variable on which they
\* differ, a holds the value that comes first in the variable's domain
LexicographicallyFirst(c, a, b) ==
    \/ Differing(c, a, b) = {}
    \/ LET i == CHOOSE x \in Differing(c, a, b) : \A y \in Differing(c, a, b) : x <= y
           v == c.variables[i]
       IN PositionIn(c, v, a[v]) < PositionIn(c, v, b[v])

\* the first declared variable an assignment leaves without a value
FirstDeclaredUnassigned(c, assignment) ==
    LET open == { i \in 1 .. Len(c.variables) : c.variables[i] \notin DOMAIN assignment }
    IN c.variables[CHOOSE x \in open : \A y \in open : x <= y]

\* C23: backtracking_search branches on the first declared variable that is
\* not yet assigned and tries its values in domain order, returning as soon
\* as one branch succeeds; from the empty assignment the result is the first
\* satisfying assignment in lexicographic order (variables in declaration
\* order, values in domain order).
C23_FirstInLexicographicOrder ==
    /\ \A k \in 1 .. Len(stack) :
          stack[k].at # "entry" =>
              /\ stack[k].first = FirstDeclaredUnassigned(csp, stack[k].assignment)
              /\ \A j \in 1 .. (stack[k].i - 1) :
                    LET tried == (stack[k].first :> csp.domains[stack[k].first][j])
                                     @@ stack[k].assignment
                    IN \A a \in CompleteAssignments(csp) :
                          (\A v \in DOMAIN tried : a[v] = tried[v]) => ~SatisfiesAll(csp, a)
    /\ (SearchDone /\ Size(solution.val) # 0) =>
          \A a \in CompleteAssignments(csp) :
              SatisfiesAll(csp, a) => LexicographicallyFirst(csp, solution.val, a)

\* the search has returned an assignment that does not give the first
\* declared variable the first value of its domain, and that is not the only
\* satisfying one
C23_Witness ==
    /\ SearchDone
    /\ Size(solution.val) >= 3
    /\ solution.val[csp.variables[1]] # csp.domains[csp.variables[1]][1]
    /\ \E a \in CompleteAssignments(csp) : SatisfiesAll(csp, a) /\ a # solution.val

-----------------------------------------------------------------------------
(* Claims about the assignments of the backtracking search *)

\* a step makes the recursive call
Recurses == Len(stack') = Len(stack) + 1 /\ stack # <<>>

\* C24: each candidate value is tried on a fresh copy of the incoming
\* assignment extended by that single binding: the assignment a branch
\* starts from holds no binding made while an earlier sibling value or its
\* subtree was explored, and the assignment of a caller is unchanged when the
\* call returns.
C24_FreshCopyPerBranch ==
    [][pc = "search" =>
        /\ \A k \in 1 .. Len(stack) :
              k <= Len(stack') => stack'[k].assignment = stack[k].assignment
        /\ Recurses =>
              LET top == Last(stack)
                  branch == Last(stack').assignment
              IN /\ top.first \notin DOMAIN top.assignment
                 /\ DOMAIN branch = DOMAIN top.assignment \cup {top.first}
                 /\ branch[top.first] = csp.domains[top.first][top.i]
                 /\ \A v \in DOMAIN top.assignment : branch[v] = top.assignment[v]]_vars

\* the second value of the first variable is tried, two levels deep, after
\* the subtree of its first value was explored and gave nothing
C24_Witness ==
    /\ pc = "search"
    /\ Len(stack) >= 3
    /\ stack[1].at = "call"
    /\ stack[1].i = 2
    /\ stack[1].assignment = <<>>
    /\ stack[2].assignment[stack[1].first] = csp.domains[stack[1].first][2]
    /\ Len(csp.constraints[csp.variables[1]]) >= 1

-----------------------------------------------------------------------------
(* Claims about the consistency check *)

\* colouring problems over the first regions of the map, each region with
\* the colours red and green, any set of borders as constraints, searched
\* from an assignment the caller passes
PassedAssignmentProblems(n) ==
    UNION { { [kind |-> "coloring",
               variables |-> Regions(k),
               domains |-> [v \in SeqToSet(Regions(k)) |-> <<"red", "green">>],
               to_add |-> BorderConstraints(k, B),
               assignment |-> a] :
                 B \in SUBSET Borders(k),
                 a \in PartialMaps(SeqToSet(Regions(k)), {"red", "green"}) } :
            k \in 1 .. n }

InitCSPPassed == InitCSPOf(PassedAssignmentProblems(NumRegions))

SpecCSPPassed == InitCSPPassed /\ [][NextCSP]_vars

\* the for loop of the innermost activation is at a value of the domain
TriesValue ==
    /\ pc = "search"
    /\ stack # <<>>
    /\ Last(stack).at = "loop"
    /\ Last(stack).i <= Len(csp.domains[Last(stack).first])

\* the assignment extended with the value the loop is at
Extended ==
    (Last(stack).first :> csp.domains[Last(stack).first][Last(stack).i])
        @@ Last(stack).assignment

-----------------------------------------------------------------------------
(* Claims about the depth of the backtracking search *)

\* C26: for a CSP with distinct declared variables solved from the empty
\* assignment, at recursion depth k (the outermost call being depth 0) the
\* assignment binds exactly the first k declared variables, each to a value
\* of its own domain; the depth never exceeds the number of variables, and an
\* unassigned variable exists whenever the solver selects one.
C26_DepthBindsFirstVariables ==
    /\ pc # "undefined"
    /\ Len(stack) <= Len(csp.variables) + 1
    /\ \A d \in 0 .. Len(stack) - 1 :
          LET assignment == stack[d + 1].assignment
          IN /\ DOMAIN assignment = SeqToSet(SubSeq(csp.variables, 1, d))
             /\ \A v \in DOMAIN assignment : assignment[v] \in SeqToSet(csp.domains[v])
             /\ (stack[d + 1].at = "entry" /\ Size(assignment) # Len(csp.variables))
                   => Unassigned(csp, assignment) # <<>>
             /\ stack[d + 1].at # "entry" => stack[d + 1].first = csp.variables[d + 1]

\* the search stands at its base case, as deep as there are variables, after
\* it went back on the value of an earlier variable
C26_Witness ==
    /\ pc = "search"
    /\ Len(csp.variables) >= 3
    /\ Len(stack) = Len(csp.variables) + 1
    /\ Last(stack).at = "entry"
    /\ stack[1].i >= 2

-----------------------------------------------------------------------------
(* Claims about the registry of constraints *)

\* main() is about to add a constraint
Adds == pc = "add" /\ problem.to_add # <<>>

\* C27: after any sequence of successful add_constraint calls every added
\* constraint is in the list of each variable it names and in no other
\* variable's list, and every declared variable has a list, possibly empty,
\* from construction on.
C27_RegisteredUnderItsVariables ==
    [][/\ ~csp.threw =>
            /\ DOMAIN csp.constraints = SeqToSet(csp.variables)
            /\ DOMAIN csp'.constraints = SeqToSet(csp.variables)
       /\ (Adds /\ pc' = "add") =>
            LET added == Head(problem.to_add)
            IN /\ \A v \in SeqToSet(added.variables) : v \in SeqToSet(csp.variables)
               /\ \A v \in SeqToSet(csp.variables) :
                     csp'.constraints[v] =
                         IF v \in SeqToSet(added.variables)
                         THEN Append(csp.constraints[v], added)
                         ELSE csp.constraints[v]
       /\ pc = "add" =>
            \A c \in Registered(csp) : \A v \in SeqToSet(csp.variables) :
                v \in SeqToSet(c.variables) <=> c \in SeqToSet(csp.constraints[v])]_vars

\* two constraints were added: two variables hold both, in the order of the
\* calls, and a third declared variable still has its empty list
C27_Witness ==
    /\ pc = "add"
    /\ problem.to_add = <<>>
    /\ \E v1, v2, v3 \in SeqToSet(csp.variables) :
          /\ v1 # v2
          /\ Len(csp.constraints[v1]) = 2
          /\ csp.constraints[v1][1] # csp.constraints[v1][2]
          /\ csp.constraints[v2] = csp.constraints[v1]
          /\ csp.constraints[v3] = <<>>

\* the place of the first undeclared variable in the list of the constraint
\* main() is about to add
FirstUndeclared ==
    LET c == Head(problem.to_add)
        undeclared == { i \in 1 .. Len(c.variables) :
                           c.variables[i] \notin SeqToSet(csp.variables) }
    IN CHOOSE x \in undeclared : \A y \in undeclared : x <= y

\* C28: when add_constraint fails on an undeclared variable, the constraint
\* has been registered under exactly those of its variables that come before
\* the first undeclared one, and under none that come after; the registry
\* is unchanged only when the undeclared variable is the first in the list.
C28_PartlyRegisteredOnFailure ==
    [][(Adds /\ pc' = "threw") =>
          LET c == Head(problem.to_add)
              before == { c.variables[i] : i \in 1 .. FirstUndeclared - 1 }
          IN /\ \A v \in SeqToSet(csp.variables) :
                   csp'.constraints[v] =
                       IF v \in before THEN Append(csp.constraints[v], c)
                       ELSE csp.constraints[v]
             /\ csp' = csp <=> FirstUndeclared = 1]_vars

\* add_constraint has failed after a successful call: one list holds the
\* constraint added before and the one whose second variable is undeclared
C28_Witness ==
    /\ pc = "threw"
    /\ ~csp.threw
    /\ \E v \in DOMAIN csp.constraints :
          /\ Len(csp.constraints[v]) = 2
          /\ csp.constraints[v][1].place2 \in SeqToSet(csp.variables)
          /\ csp.constraints[v][1].place1 \in SeqToSet(csp.variables)
          /\ csp.constraints[v][2].place1 = v
          /\ csp.constraints[v][2].place2 \notin SeqToSet(csp.variables)

-----------------------------------------------------------------------------
(* astar run to its return *)

\* a caller that runs astar alone, on any of the graphs
InitAstar ==
    /\ problem \in GraphProblems(MaxEdges)
    /\ pc = "call_astar"
    /\ nodes = <<>>
    /\ frontier = <<>>
    /\ explored = {}
    /\ explored_cost = <<>>
    /\ solution1 = NotFound
    /\ solution2 = NotFound
    /\ solution3 = NotFound
    /\ NoCSP
    /\ NoContains

NextAstar ==
    \/ AstarCall
    \/ AstarStep
    \/ AstarExhausted

\* the program keeps running: a step that can be taken is taken
SpecAstar == InitAstar /\ [][NextAstar]_vars /\ WF_vars(NextAstar)

\* C29: when the states reachable from the initial state are finitely many,
\* astar terminates, with a node or with nullptr, for every heuristic,
\* admissible or not, and every order in which frontier nodes are removed.
C29_AstarTerminates == <>(pc = "done")

\* astar has returned nullptr under a heuristic that is not admissible,
\* after a successor led back to the initial state, which was pushed again
C29_Witness ==
    /\ pc = "done"
    /\ ~solution3.found
    /\ GraphHeuristic(problem, problem.start) > 1
    /\ Len(nodes) >= 3
    /\ \E n \in 2 .. Len(nodes) : nodes[n].state = problem.start

-----------------------------------------------------------------------------
(* generic_search.h: linear_contains and binary_contains *)

\* std::find(iterable.begin(), iterable.end(), key) != iterable.end()
linear_contains(iterable, key) == \E i \in 1 .. Len(iterable) : iterable[i] = key

\* (variant) begin = mid in place of begin = mid + 1
BinaryIterationNoAdvance(sequence, key, b, e) ==
    LET mid == b + (e - b) \div 2
    IN IF key < sequence[mid]
       THEN [returned |-> FALSE, begin |-> b, end |-> mid]
       ELSE IF sequence[mid] < key
       THEN [returned |-> FALSE, begin |-> mid, end |-> e]
       ELSE [returned |-> TRUE, begin |-> b, end |-> e]

\* one iteration of the while loop of binary_contains, the iterators being
\* indices: begin() is 1 and end() is one past the last index
BinaryIteration(sequence, key, b, e) ==
    LET mid == b + (e - b) \div 2
    IN IF key < sequence[mid]
       THEN [returned |-> FALSE, begin |-> b, end |-> mid]
       ELSE IF sequence[mid] < key
       THEN [returned |-> FALSE, begin |-> mid + 1, end |-> e]
       ELSE [returned |-> TRUE, begin |-> b, end |-> e]

\* the sequences of at most len elements of 1 .. maxv in ascending order,
\* repeated elements included
SortedSequences(len, maxv) ==
    { s \in SeqsUpTo(1 .. maxv, len) :
        \A i \in 1 .. Len(s) - 1 : s[i] <= s[i + 1] }

\* a sorted sequence and a key, which may lie below or above every element
ContainsProblems(len, maxv) ==
    { [kind |-> "contains", sequence |-> s, key |-> k] :
        s \in SortedSequences(len, maxv), k \in 0 .. maxv + 1 }

InitContains ==
    /\ problem \in ContainsProblems(MaxLen, MaxValue)
    /\ pc = "call_binary_contains"
    /\ begin = 0
    /\ end = 0
    /\ contained = NoValue
    /\ nodes = <<>>
    /\ frontier = <<>>
    /\ explored = {}
    /\ explored_cost = <<>>
    /\ solution1 = NotFound
    /\ solution2 = NotFound
    /\ solution3 = NotFound
    /\ NoCSP

\* auto begin = sequence.begin(), end = sequence.end();
BinaryContainsCall ==
    /\ pc = "call_binary_contains"
    /\ begin' = 1
    /\ end' = Len(problem.sequence) + 1
    /\ pc' = "binary_contains"
    /\ UNCHANGED <<searchVarsButPc, cspVars, contained>>

\* while (begin != end) { ... }
BinaryContainsStep ==
    /\ pc = "binary_contains"
    /\ begin # end
    /\ LET r == BinaryIteration(problem.sequence, problem.key, begin, end)
       IN IF r.returned
          THEN /\ contained' = Returned(TRUE)
               /\ pc' = "done"
               /\ UNCHANGED <<begin, end>>
          ELSE /\ begin' = r.begin
               /\ end' = r.end
               /\ UNCHANGED <<pc, contained>>
    /\ UNCHANGED <<searchVarsButPc, cspVars>>

\* the loop is left with begin == end: return false;
BinaryContainsNotFound ==
    /\ pc = "binary_contains"
    /\ begin = end
    /\ contained' = Returned(FALSE)
    /\ pc' = "done"
    /\ UNCHANGED <<searchVarsButPc, cspVars, begin, end>>

NextContains ==
    \/ BinaryContainsCall
    \/ BinaryContainsStep
    \/ BinaryContainsNotFound

\* the program keeps running: a step that can be taken is taken
SpecContains == InitContains /\ [][NextContains]_vars /\ WF_vars(NextContains)

\* C30: for every sequence in ascending order and every key the loop of
\* binary_contains terminates and the function returns what linear_contains
\* returns: true exactly when the key occurs in the sequence.
C30_BinaryAgreesWithLinear ==
    /\ <>(pc = "done")
    /\ [](pc = "done" =>
            /\ contained = Returned(linear_contains(problem.sequence, problem.key))
            /\ contained.val <=>
                  \E i \in 1 .. Len(problem.sequence) :
                      problem.sequence[i] = problem.key)

\* the key was found in a sequence with a repeated element, after the loop
\* had moved begin
C30_Witness ==
    /\ pc = "done"
    /\ contained = Returned(TRUE)
    /\ begin > 1
    /\ Len(problem.sequence) >= 3
    /\ problem.sequence[1] = problem.sequence[2]

====
